---- MODULE Spec2Model ----
(***************************************************************************)
(* Taito Densha Controller ("mascon") emulation, pcsx2/USB/usb-pad/        *)
(* usb-mascon.cpp: the control state of one MasconState, its binding       *)
(* get/set contract, reset, save-state freeze and the interrupt-IN report. *)
(***************************************************************************)
EXTENDS Integers, Sequences, FiniteSets, TLC

(* ---------------------------------------------------------------------- *)
(* Bounds of the checked environment                                       *)
(* ---------------------------------------------------------------------- *)

\* Binding values are the rationals n / ValueDen.
ValueDen == 16

\* The axis grid runs from -GridOver/ValueDen to (ValueDen+GridOver)/ValueDen.
GridOver == 2

\* The caller holds at most MaxHeld buttons down at once.
MaxHeld == 2

(* ---------------------------------------------------------------------- *)
(* Enumerations                                                            *)
(* ---------------------------------------------------------------------- *)

MT_TYPE2 == 0
MT_SHINKANSEN == 1
MT_RYOJOUHEN == 2
MT_COUNT == 3

MasconTypes == MT_TYPE2 .. (MT_COUNT - 1)

CID_MC_POWER == 0
CID_MC_BRAKE == 1
CID_MC_UP == 2
CID_MC_RIGHT == 3
CID_MC_DOWN == 4
CID_MC_LEFT == 5
CID_MC_B == 6
CID_MC_A == 7
CID_MC_C == 8
CID_MC_D == 9
CID_MC_SELECT == 10
CID_MC_START == 11
LENGTH == 12
BUTTONS_OFFSET == CID_MC_B

\* The bind indices named by the binding table of MasconDevice::Bindings.
Bindings == CID_MC_POWER .. (LENGTH - 1)

AxisBindings == {CID_MC_POWER, CID_MC_BRAKE}
HatBindings == {CID_MC_UP, CID_MC_RIGHT, CID_MC_DOWN, CID_MC_LEFT}
ButtonBindings == {CID_MC_B, CID_MC_A, CID_MC_C, CID_MC_D, CID_MC_SELECT, CID_MC_START}

\* Value of the I/O error status of the USB layer (USB/qemu-usb/qusb.h).
USB_RET_IOERROR == -5

(* ---------------------------------------------------------------------- *)
(* u8 arithmetic                                                           *)
(* ---------------------------------------------------------------------- *)

Byte == 0 .. 255

\* Bits kept of a promoted operand; every operand of the code fits in 10 bits.
WordBits == 12

RECURSIVE BitAnd(_, _)
BitAnd(a, b) ==
    IF a = 0 \/ b = 0 THEN 0
    ELSE (a % 2) * (b % 2) + 2 * BitAnd(a \div 2, b \div 2)

RECURSIVE BitOr(_, _)
BitOr(a, b) ==
    IF a = 0 THEN b
    ELSE IF b = 0 THEN a
    ELSE (IF (a % 2) + (b % 2) > 0 THEN 1 ELSE 0) + 2 * BitOr(a \div 2, b \div 2)

\* ~x on the bits kept of a promoted operand.
BitNot(a) == (2 ^ WordBits - 1) - a

ShiftLeft(a, n) == a * (2 ^ n)
ShiftRight(a, n) == a \div (2 ^ n)

\* Conversion of an integer expression to u8.
ToU8(a) == a % 256

(* ---------------------------------------------------------------------- *)
(* Float-to-byte conversion of SetBindValue                                *)
(* ---------------------------------------------------------------------- *)

\* A conversion that truncates toward zero instead of rounding.
LRound_truncating(num, den) ==
    IF num >= 0 THEN num \div den ELSE 0 - ((0 - num) \div den)

\* std::lroundf(num / den): nearest integer, halfway cases away from zero.
LRound(num, den) ==
    IF num >= 0 THEN (2 * num + den) \div (2 * den)
    ELSE 0 - ((2 * (0 - num) + den) \div (2 * den))

Clamp(x, lo, hi) == IF x < lo THEN lo ELSE IF x > hi THEN hi ELSE x

\* std::clamp<long>(std::lroundf(value * 255.0f), 0, 255) for value = n / ValueDen.
ValueToByte(n) == Clamp(LRound(n * 255, ValueDen), 0, 255)

(* ---------------------------------------------------------------------- *)
(* Buttons                                                                 *)
(* ---------------------------------------------------------------------- *)

\* Masks handed out from the high bit down.
button_mask_reversed(bind_index) == 2 ^ (CID_MC_START - bind_index)

button_mask(bind_index) == 2 ^ (bind_index - BUTTONS_OFFSET)

button_at(value, index) == ToU8(BitAnd(value, button_mask(index)))

get_ab(b) == BitOr(button_at(b, CID_MC_A), button_at(b, CID_MC_B))

swap_cd(b) == BitOr(ShiftLeft(button_at(b, CID_MC_C), 1), ShiftRight(button_at(b, CID_MC_D), 1))

get_ss(b) == BitOr(button_at(b, CID_MC_START), button_at(b, CID_MC_SELECT))

dct01_buttons(b) == b

\* A remapper that leaves the swapped C/D pair where swap_cd put it.
dct02_buttons_unshifted(b) ==
    ToU8(BitOr(BitOr(ShiftLeft(get_ab(b), 2), swap_cd(b)), get_ss(b)))

dct02_buttons(b) ==
    ToU8(BitOr(BitOr(ShiftLeft(get_ab(b), 2), ShiftRight(swap_cd(b), 2)), get_ss(b)))

(* ---------------------------------------------------------------------- *)
(* Notch tables: << control_in, emulated_out >>                            *)
(* ---------------------------------------------------------------------- *)

\* The Type 2 power outputs laid out from neutral at full input to P5 at rest.
dct01_power_notches_rising ==
    << <<248, 129>>, <<200, 109>>, <<152, 84>>, <<88, 63>>, <<40, 33>>, <<0, 0>> >>

dct01_power_notches ==
    << <<248, 0>>, <<200, 33>>, <<152, 63>>, <<88, 84>>, <<40, 109>>, <<0, 129>> >>

dct01_brake_notches ==
    << <<248, 185>>, <<230, 181>>, <<202, 178>>, <<174, 175>>, <<146, 168>>,
       <<118, 162>>, <<90, 154>>, <<62, 148>>, <<34, 138>>, <<0, 121>> >>

dct02_power_notches ==
    << <<247, 251>>, <<228, 233>>, <<209, 215>>, <<190, 198>>, <<171, 180>>,
       <<152, 162>>, <<133, 144>>, <<114, 126>>, <<95, 108>>, <<76, 90>>,
       <<57, 72>>, <<38, 54>>, <<19, 36>>, <<0, 18>> >>

\* The Shinkansen brake table with the outputs of two notches transposed.
dct02_brake_notches_transposed ==
    << <<248, 251>>, <<202, 223>>, <<174, 195>>, <<146, 139>>, <<118, 167>>,
       <<90, 112>>, <<62, 84>>, <<34, 56>>, <<0, 28>> >>

dct02_brake_notches ==
    << <<248, 251>>, <<202, 223>>, <<174, 195>>, <<146, 167>>, <<118, 139>>,
       <<90, 112>>, <<62, 84>>, <<34, 56>>, <<0, 28>> >>

\* for (const auto& x : notches) if (value >= x.first) return x.second;
\* return notches[size - 1].second;
RECURSIVE ScanNotches(_, _, _)
ScanNotches(notches, value, i) ==
    IF i > Len(notches) THEN notches[Len(notches)][2]
    ELSE IF value >= notches[i][1] THEN notches[i][2]
    ELSE ScanNotches(notches, value, i + 1)

dct01_power(value) == ScanNotches(dct01_power_notches, value, 1)
dct01_brake(value) == ScanNotches(dct01_brake_notches, value, 1)
dct02_power(value) == ScanNotches(dct02_power_notches, value, 1)
dct02_brake(value) == ScanNotches(dct02_brake_notches, value, 1)

(* ---------------------------------------------------------------------- *)
(* State                                                                   *)
(* ---------------------------------------------------------------------- *)

VARIABLES
    type,     \* MasconState::type, fixed at construction
    data,     \* MasconState::data
    sw,       \* the save-state stream section written by Freeze
    call,     \* the last call made on the device: << name, arguments... >>
    ret,      \* what that call returned
    buf,      \* the packet buffer handed to that call
    fin,      \* argument of the pure function under evaluation
    fout,     \* its result
    threads   \* the two calling contexts when calls are split into field accesses

vars == << type, data, sw, call, ret, buf, fin, fout, threads >>

None == << >>

\* data = {}
ZeroData ==
    [hat_left |-> FALSE, hat_right |-> FALSE, hat_up |-> FALSE, hat_down |-> FALSE,
     power |-> 0, brake |-> 0, hatswitch |-> 0, buttons |-> 0]

(* ---------------------------------------------------------------------- *)
(* Hat switch                                                              *)
(* ---------------------------------------------------------------------- *)

\* A resolution that tests the single directions before the diagonals.
UpdateHatSwitch_cardinal_first(d) ==
    [d EXCEPT !.hatswitch =
        IF d.hat_up THEN 0
        ELSE IF d.hat_right THEN 2
        ELSE IF d.hat_down THEN 4
        ELSE IF d.hat_left THEN 6
        ELSE IF d.hat_up /\ d.hat_right THEN 1
        ELSE IF d.hat_right /\ d.hat_down THEN 3
        ELSE IF d.hat_down /\ d.hat_left THEN 5
        ELSE IF d.hat_left /\ d.hat_up THEN 7
        ELSE 8]

UpdateHatSwitch(d) ==
    [d EXCEPT !.hatswitch =
        IF d.hat_up /\ d.hat_right THEN 1
        ELSE IF d.hat_right /\ d.hat_down THEN 3
        ELSE IF d.hat_down /\ d.hat_left THEN 5
        ELSE IF d.hat_left /\ d.hat_up THEN 7
        ELSE IF d.hat_up THEN 0
        ELSE IF d.hat_right THEN 2
        ELSE IF d.hat_down THEN 4
        ELSE IF d.hat_left THEN 6
        ELSE 8]

(* ---------------------------------------------------------------------- *)
(* Binding contract                                                        *)
(* ---------------------------------------------------------------------- *)

\* The float returned by GetBindValue, as the rational << numerator, denominator >>.
GetBindValue(bind_index) ==
    CASE bind_index = CID_MC_POWER -> << data.power, 255 >>
      [] bind_index = CID_MC_BRAKE -> << data.brake, 255 >>
      [] bind_index = CID_MC_UP -> << IF data.hat_up THEN 1 ELSE 0, 1 >>
      [] bind_index = CID_MC_DOWN -> << IF data.hat_down THEN 1 ELSE 0, 1 >>
      [] bind_index = CID_MC_LEFT -> << IF data.hat_left THEN 1 ELSE 0, 1 >>
      [] bind_index = CID_MC_RIGHT -> << IF data.hat_right THEN 1 ELSE 0, 1 >>
      [] bind_index \in ButtonBindings ->
            << IF button_at(data.buttons, bind_index) # 0 THEN 1 ELSE 0, 1 >>
      [] OTHER -> << 0, 1 >>

\* SetBindValue(bind_index, value) with value = n / ValueDen.
SetBindValue(bind_index, n) ==
    /\ data' =
         CASE bind_index = CID_MC_POWER -> [data EXCEPT !.power = ValueToByte(n)]
           [] bind_index = CID_MC_BRAKE -> [data EXCEPT !.brake = ValueToByte(n)]
           [] bind_index = CID_MC_UP ->
                 UpdateHatSwitch([data EXCEPT !.hat_up = (ValueToByte(n) # 0)])
           [] bind_index = CID_MC_DOWN ->
                 UpdateHatSwitch([data EXCEPT !.hat_down = (ValueToByte(n) # 0)])
           [] bind_index = CID_MC_LEFT ->
                 UpdateHatSwitch([data EXCEPT !.hat_left = (ValueToByte(n) # 0)])
           [] bind_index = CID_MC_RIGHT ->
                 UpdateHatSwitch([data EXCEPT !.hat_right = (ValueToByte(n) # 0)])
           [] bind_index \in ButtonBindings ->
                 IF 2 * n >= ValueDen
                 THEN [data EXCEPT !.buttons = ToU8(BitOr(data.buttons, button_mask(bind_index)))]
                 ELSE [data EXCEPT !.buttons =
                          ToU8(BitAnd(data.buttons, BitNot(button_mask(bind_index))))]
           [] OTHER -> data
    /\ call' = << "SetBindValue", bind_index, n >>
    /\ ret' = None
    /\ buf' = None
    /\ UNCHANGED << type, sw, fin, fout, threads >>

\* A reset that clears the whole of data.
ResetData_everything(d) == ZeroData

ResetData(d) == [d EXCEPT !.power = 0, !.brake = 0]

Reset ==
    /\ data' = ResetData(data)
    /\ call' = << "Reset" >>
    /\ ret' = None
    /\ buf' = None
    /\ UNCHANGED << type, sw, fin, fout, threads >>

(* ---------------------------------------------------------------------- *)
(* Interrupt-IN report                                                     *)
(* ---------------------------------------------------------------------- *)

\* wMaxPacketSize of the interrupt endpoint: the size of the packet buffer.
PacketSize == 8

ZeroBuf == [i \in 1 .. PacketSize |-> 0]

\* buf[0..5] = bytes, the rest of the buffer as it was.
WriteReport(b, bytes) ==
    [i \in 1 .. Len(b) |-> IF i <= Len(bytes) THEN bytes[i] ELSE b[i]]

\* A switch that writes the Type 2 levers in the order power, brake.
Report_levers_swapped(t, d, b) ==
    CASE t = MT_TYPE2 ->
            [buf |-> WriteReport(b, << 1, dct01_power(d.power), dct01_brake(d.brake),
                                       255, BitAnd(d.hatswitch, 15),
                                       dct01_buttons(d.buttons) >>),
             ret |-> 6]
      [] t = MT_SHINKANSEN ->
            [buf |-> WriteReport(b, << dct02_brake(d.brake), dct02_power(d.power),
                                       255, BitAnd(d.hatswitch, 15),
                                       dct02_buttons(d.buttons), 0 >>),
             ret |-> 6]
      [] OTHER -> [buf |-> b, ret |-> USB_RET_IOERROR]

\* A switch whose default case serves the Shinkansen layout.
Report_default_served(t, d, b) ==
    CASE t = MT_TYPE2 ->
            [buf |-> WriteReport(b, << 1, dct01_brake(d.brake), dct01_power(d.power),
                                       255, BitAnd(d.hatswitch, 15),
                                       dct01_buttons(d.buttons) >>),
             ret |-> 6]
      [] OTHER ->
            [buf |-> WriteReport(b, << dct02_brake(d.brake), dct02_power(d.power),
                                       255, BitAnd(d.hatswitch, 15),
                                       dct02_buttons(d.buttons), 0 >>),
             ret |-> 6]

\* The switch (type) of TokenIn on the resolved data d and the buffer b:
\* the buffer after the call and the value returned.
Report(t, d, b) ==
    CASE t = MT_TYPE2 ->
            [buf |-> WriteReport(b, << 1, dct01_brake(d.brake), dct01_power(d.power),
                                       255, BitAnd(d.hatswitch, 15),
                                       dct01_buttons(d.buttons) >>),
             ret |-> 6]
      [] t = MT_SHINKANSEN ->
            [buf |-> WriteReport(b, << dct02_brake(d.brake), dct02_power(d.power),
                                       255, BitAnd(d.hatswitch, 15),
                                       dct02_buttons(d.buttons), 0 >>),
             ret |-> 6]
      [] OTHER -> [buf |-> b, ret |-> USB_RET_IOERROR]

\* TokenIn(buf, len) on the buffer b.
TokenIn(b) ==
    /\ data' = UpdateHatSwitch(data)
    /\ buf' = Report(type, UpdateHatSwitch(data), b).buf
    /\ ret' = Report(type, UpdateHatSwitch(data), b).ret
    /\ call' = << "TokenIn" >>
    /\ UNCHANGED << type, sw, fin, fout, threads >>

(* ---------------------------------------------------------------------- *)
(* Save state                                                              *)
(* ---------------------------------------------------------------------- *)

\* A Freeze that passes brake to the stream before power.
Freeze_brake_first(reading, marker_ok, section) ==
    /\ IF ~marker_ok
       THEN /\ ret' = FALSE
            /\ UNCHANGED << data, sw >>
       ELSE /\ ret' = TRUE
            /\ IF reading
               THEN /\ data' = [data EXCEPT !.brake = section[1], !.power = section[2]]
                    /\ UNCHANGED sw
               ELSE /\ sw' = << data.brake, data.power >>
                    /\ UNCHANGED data
    /\ call' = << "Freeze", reading, marker_ok >>
    /\ buf' = None
    /\ UNCHANGED << type, fin, fout, threads >>

\* Freeze(dev, sw): reading tells the mode of the StateWrapper, marker_ok what
\* DoMarker("MasconDevice") returns, section the bytes that follow the marker
\* in the stream being read.
Freeze(reading, marker_ok, section) ==
    /\ IF ~marker_ok
       THEN /\ ret' = FALSE
            /\ UNCHANGED << data, sw >>
       ELSE /\ ret' = TRUE
            /\ IF reading
               THEN /\ data' = [data EXCEPT !.power = section[1], !.brake = section[2]]
                    /\ UNCHANGED sw
               ELSE /\ sw' = << data.power, data.brake >>
                    /\ UNCHANGED data
    /\ call' = << "Freeze", reading, marker_ok >>
    /\ buf' = None
    /\ UNCHANGED << type, fin, fout, threads >>

(* ---------------------------------------------------------------------- *)
(* The device under serialized calls                                       *)
(* ---------------------------------------------------------------------- *)

\* MasconState(port, type): data = {} and Reset().
Init ==
    /\ type \in MasconTypes
    /\ data = ResetData(ZeroData)
    /\ sw = None
    /\ call = << "MasconState" >>
    /\ ret = None
    /\ buf = None
    /\ fin = None
    /\ fout = None
    /\ threads = None

\* Values 0.0 and 1.0.
SwitchValues == {0, ValueDen}

\* The lever bytes a stream written by an earlier session can hold.
SectionBytes == {ValueToByte(n) : n \in SwitchValues}

\* Number of buttons held down.
Held == Cardinality({i \in ButtonBindings : button_at(data.buttons, i) # 0})

\* The caller presses a further button only while fewer than MaxHeld are held.
MayPress(i, n) ==
    (i \in ButtonBindings /\ 2 * n >= ValueDen /\ button_at(data.buttons, i) = 0)
        => Held < MaxHeld

Next ==
    \/ \E i \in Bindings, n \in SwitchValues : MayPress(i, n) /\ SetBindValue(i, n)
    \/ Reset
    \/ TokenIn(ZeroBuf)
    \/ \E ok \in BOOLEAN, p \in SectionBytes, b \in SectionBytes :
          Freeze(TRUE, ok, << p, b >>)

Spec == Init /\ [][Next]_vars

(* ---------------------------------------------------------------------- *)
(* The levers alone, on the fine grid of values                            *)
(* ---------------------------------------------------------------------- *)

AxisGrid == (0 - GridOver) .. (ValueDen + GridOver)

NextAxis ==
    \/ \E i \in AxisBindings, n \in AxisGrid : SetBindValue(i, n)
    \/ Reset

SpecAxis == Init /\ [][NextAxis]_vars

(* ---------------------------------------------------------------------- *)
(* A session that saves and loads its own state                            *)
(* ---------------------------------------------------------------------- *)

SessionBindings == {CID_MC_POWER, CID_MC_BRAKE, CID_MC_UP, CID_MC_A}

NextFreeze ==
    \/ \E i \in SessionBindings, n \in SwitchValues : SetBindValue(i, n)
    \/ Reset
    \/ TokenIn(ZeroBuf)
    \/ \E ok \in BOOLEAN : Freeze(FALSE, ok, None)
    \/ \E ok \in BOOLEAN : sw # None /\ Freeze(TRUE, ok, sw)

SpecFreeze == Init /\ [][NextFreeze]_vars

(* ---------------------------------------------------------------------- *)
(* The notch quantizers as functions of two bytes                          *)
(* ---------------------------------------------------------------------- *)

NotchTables == {"dct01_power", "dct01_brake", "dct02_power", "dct02_brake"}

Quantizer(t, value) ==
    CASE t = "dct01_power" -> dct01_power(value)
      [] t = "dct01_brake" -> dct01_brake(value)
      [] t = "dct02_power" -> dct02_power(value)
      [] t = "dct02_brake" -> dct02_brake(value)

InitNotch ==
    /\ type = MT_TYPE2
    /\ data = ResetData(ZeroData)
    /\ sw = None
    /\ call = << "MasconState" >>
    /\ ret = None
    /\ buf = None
    /\ fin \in NotchTables \X Byte
    /\ fout = None
    /\ threads = None

\* Quantize fin[2] and a byte y above it with the table fin[1].
ApplyQuantizer ==
    /\ fout = None
    /\ \E y \in Byte :
          /\ fin[2] <= y
          /\ fout' = << y, Quantizer(fin[1], fin[2]), Quantizer(fin[1], y) >>
    /\ UNCHANGED << type, data, sw, call, ret, buf, fin, threads >>

SpecNotch == InitNotch /\ [][ApplyQuantizer]_vars

(* ---------------------------------------------------------------------- *)
(* The button remappers as functions of two button bytes                   *)
(* ---------------------------------------------------------------------- *)

ButtonSpace == 0 .. 63

Remapper(t, b) == IF t = MT_TYPE2 THEN dct01_buttons(b) ELSE dct02_buttons(b)

InitRemap ==
    /\ type = MT_TYPE2
    /\ data = ResetData(ZeroData)
    /\ sw = None
    /\ call = << "MasconState" >>
    /\ ret = None
    /\ buf = None
    /\ fin \in {MT_TYPE2, MT_SHINKANSEN} \X ButtonSpace
    /\ fout = None
    /\ threads = None

\* Remap fin[2] and another button byte b2 for the model fin[1].
ApplyRemapper ==
    /\ fout = None
    /\ \E b2 \in ButtonSpace :
          fout' = << b2, Remapper(fin[1], fin[2]), Remapper(fin[1], b2) >>
    /\ UNCHANGED << type, data, sw, call, ret, buf, fin, threads >>

SpecRemap == InitRemap /\ [][ApplyRemapper]_vars

(* ====================================================================== *)
(* Properties                                                              *)
(* ====================================================================== *)

\* The output of the first pair of the table whose threshold is <= the input.
FirstMatch(table, x) ==
    LET i == CHOOSE i \in 1 .. Len(table) :
                 /\ table[i][1] <= x
                 /\ \A j \in 1 .. (i - 1) : table[j][1] > x
    IN table[i][2]

\* The bit of button X in a button byte, masked in place.
Masked(b, X) == ((b \div (2 ^ (X - BUTTONS_OFFSET))) % 2) * (2 ^ (X - BUTTONS_OFFSET))

\* ((A|B) << 2) | ((C<<1 | D>>1) >> 2) | (Start|Select); the operands of each
\* | have no bit in common, so that | is +.
PackedButtons(b) ==
    (Masked(b, CID_MC_A) + Masked(b, CID_MC_B)) * 4
    + ((Masked(b, CID_MC_C) * 2 + Masked(b, CID_MC_D) \div 2) \div 4)
    + (Masked(b, CID_MC_START) + Masked(b, CID_MC_SELECT))

\* On every byte each quantizer of the code is the first match of its table.
QuantizersAreFirstMatch ==
    \A x \in Byte :
        /\ dct01_power(x) = FirstMatch(dct01_power_notches, x)
        /\ dct01_brake(x) = FirstMatch(dct01_brake_notches, x)
        /\ dct02_power(x) = FirstMatch(dct02_power_notches, x)
        /\ dct02_brake(x) = FirstMatch(dct02_brake_notches, x)

\* On the 6-bit space the Shinkansen remapper is the packing formula.
RemapIsPacked == \A b \in 0 .. 63 : dct02_buttons(b) = PackedButtons(b)

\* The six report bytes of the buffer.
ReportBytes == SubSeq(buf, 1, 6)

Reported == call[1] = "TokenIn"

\* C1: after every TokenIn on a Type 2 or Shinkansen device the call returned 6
\* and the buffer starts with the six bytes of the model's layout: the
\* quantized brake and power, the constant bytes 0x01 / 0xFF / 0x00, the low
\* nibble of hatswitch and the (remapped) buttons; the quantizers are the
\* first match of their tables and the Shinkansen remap is the packing formula.
ReportLayout ==
    Reported =>
        /\ QuantizersAreFirstMatch
        /\ RemapIsPacked
        /\ type = MT_TYPE2 =>
              /\ ret = 6
              /\ ReportBytes = << 1, FirstMatch(dct01_brake_notches, data.brake),
                                  FirstMatch(dct01_power_notches, data.power),
                                  255, data.hatswitch % 16, data.buttons >>
        /\ type = MT_SHINKANSEN =>
              /\ ret = 6
              /\ ReportBytes = << FirstMatch(dct02_brake_notches, data.brake),
                                  FirstMatch(dct02_power_notches, data.power),
                                  255, data.hatswitch % 16, PackedButtons(data.buttons), 0 >>

\* A Shinkansen report with full power, a diagonal hat and two buttons held.
ReportLayoutWitness ==
    /\ Reported
    /\ type = MT_SHINKANSEN
    /\ data.power = 255
    /\ data.hat_up /\ data.hat_right
    /\ button_at(data.buttons, CID_MC_A) # 0
    /\ button_at(data.buttons, CID_MC_C) # 0
    /\ ReportBytes = << 28, 251, 255, 1, 10, 0 >>

NoHat == ~data.hat_up /\ ~data.hat_down /\ ~data.hat_left /\ ~data.hat_right

ScenarioA ==
    /\ Reported
    /\ type = MT_TYPE2
    /\ data.power = 255
    /\ data.brake = 0
    /\ data.buttons = 0
    /\ NoHat

\* C2 as stated: in scenario A the report is 01 79 81 FF 08 00.
ScenarioAPowerReleased ==
    ScenarioA => (ret = 6 /\ ReportBytes = << 1, 121, 129, 255, 8, 0 >>)

\* C2: in scenario A (Type 2, power 0xFF, brake 0x00, no button, hat neutral)
\* TokenIn returns 6 and the report is 01 79 00 FF 08 00: full power is the
\* notch P5, whose byte is 0x00.
ScenarioAReport ==
    ScenarioA => (ret = 6 /\ ReportBytes = << 1, 121, 0, 255, 8, 0 >>)

ScenarioAWitness == ScenarioA /\ ret = 6

Quantized == fout # None

\* C3 as stated: every quantizer is non-decreasing.
QuantizerNonDecreasing ==
    Quantized => fout[2] <= fout[3]

\* C3: for bytes x <= y the Type 2 brake, Shinkansen power and Shinkansen
\* brake quantizers give quantize(x) <= quantize(y); the Type 2 power
\* quantizer is monotone the other way, quantize(x) >= quantize(y).
QuantizerMonotone ==
    Quantized =>
        IF fin[1] = "dct01_power" THEN fout[2] >= fout[3] ELSE fout[2] <= fout[3]

\* Two bytes in different notches, of a rising table and of the falling one.
QuantizerMonotoneWitness ==
    /\ Quantized
    /\ \/ fin[1] = "dct02_brake" /\ fin[2] = 33 /\ fout = << 34, 28, 56 >>
       \/ fin[1] = "dct01_power" /\ fin[2] = 39 /\ fout = << 40, 129, 109 >>

Remapped == fout # None

\* C7: for Type 2 and for Shinkansen, two different button bytes of the
\* 6-bit space are remapped to different bytes, and the remapped byte lies
\* in the 6-bit space again.
RemapInjective ==
    Remapped =>
        /\ fin[2] # fout[1] => fout[2] # fout[3]
        /\ fout[2] \in ButtonSpace

\* The Shinkansen remapper on A alone against B alone.
RemapInjectiveWitness ==
    /\ Remapped
    /\ fin = << MT_SHINKANSEN, 2 >>
    /\ fout = << 1, 8, 4 >>

\* The first-match-wins encoding of the four hat flags.
E(up, down, left, right) ==
    IF up /\ right THEN 1
    ELSE IF right /\ down THEN 3
    ELSE IF down /\ left THEN 5
    ELSE IF left /\ up THEN 7
    ELSE IF up THEN 0
    ELSE IF right THEN 2
    ELSE IF down THEN 4
    ELSE IF left THEN 6
    ELSE 8

EncodedHat == E(data.hat_up, data.hat_down, data.hat_left, data.hat_right)

\* Index in the buffer (from 1) of the hat byte of a report.
HatByte == IF type = MT_TYPE2 THEN 5 ELSE 4

\* C4: right after a SetBindValue on a hat index the stored hatswitch is E of
\* the four flags, and the hat byte of every report is E of the flags at that
\* call (8 on a device that received no hat input); E lies in 0..8 for the 16
\* flag combinations and E(up, down) is 0.
HatNeverStale ==
    /\ (call[1] = "SetBindValue" /\ call[2] \in HatBindings) => data.hatswitch = EncodedHat
    /\ (Reported /\ ret = 6) => buf[HatByte] = EncodedHat
    /\ (Reported /\ ret = 6 /\ NoHat) => buf[HatByte] = 8
    /\ \A u \in BOOLEAN, d \in BOOLEAN, l \in BOOLEAN, r \in BOOLEAN : E(u, d, l, r) \in 0 .. 8
    /\ E(TRUE, TRUE, FALSE, FALSE) = 0

\* A report made while up and down are held together.
HatNeverStaleWitness ==
    /\ Reported
    /\ ret = 6
    /\ data.hat_up /\ data.hat_down /\ ~data.hat_left /\ ~data.hat_right
    /\ buf[HatByte] = 0

FlagsAndButtonsKept ==
    /\ data'.hat_up = data.hat_up
    /\ data'.hat_down = data.hat_down
    /\ data'.hat_left = data.hat_left
    /\ data'.hat_right = data.hat_right
    /\ data'.buttons = data.buttons

\* C5: Reset leaves power and brake 0, so that GetBindValue of both is 0.0,
\* and keeps the hat flags, hatswitch and buttons: GetBindValue of every hat
\* and button binding is what it was before.
ResetFrame ==
    [][call'[1] = "Reset" =>
          /\ data'.power = 0
          /\ data'.brake = 0
          /\ GetBindValue(CID_MC_POWER)' = << 0, 255 >>
          /\ GetBindValue(CID_MC_BRAKE)' = << 0, 255 >>
          /\ FlagsAndButtonsKept
          /\ data'.hatswitch = data.hatswitch
          /\ \A i \in HatBindings \cup ButtonBindings :
                GetBindValue(i)' = GetBindValue(i)]_vars

\* A reset device that still holds a hat direction and a button.
ResetFrameWitness ==
    /\ call[1] = "Reset"
    /\ data.power = 0 /\ data.brake = 0
    /\ data.hat_left /\ data.hatswitch = 6
    /\ data.buttons = 32

\* The only button held is X, and the call before set X to 1.0.
JustPressed(X) ==
    /\ call = << "SetBindValue", X, ValueDen >>
    /\ \A Y \in ButtonBindings : (button_at(data.buttons, Y) # 0) <=> (Y = X)

\* Bit position of a button in the order A, B, C, D, Select, Start.
AlphabeticalBit(X) ==
    CASE X = CID_MC_A -> 0 [] X = CID_MC_B -> 1 [] X = CID_MC_C -> 2
      [] X = CID_MC_D -> 3 [] X = CID_MC_SELECT -> 4 [] X = CID_MC_START -> 5

\* Bit position of a button in the order B, A, C, D, Select, Start.
WireBit(X) ==
    CASE X = CID_MC_B -> 0 [] X = CID_MC_A -> 1 [] X = CID_MC_C -> 2
      [] X = CID_MC_D -> 3 [] X = CID_MC_SELECT -> 4 [] X = CID_MC_START -> 5

\* C6 as stated: the buttons take the bits in the order A, B, C, D, Select,
\* Start, and that is the Type 2 button byte (0x01 for A, 0x02 for B).
ButtonBitsAlphabetical ==
    [][\A X \in ButtonBindings :
          (type = MT_TYPE2 /\ JustPressed(X) /\ call'[1] = "TokenIn") =>
              /\ data.buttons = 2 ^ AlphabeticalBit(X)
              /\ buf'[6] = 2 ^ AlphabeticalBit(X)]_vars

\* C6: the buttons take the bits of buttons in the order B, A, C, D, Select,
\* Start from low to high, and the Type 2 button byte is buttons unchanged:
\* SetBindValue(X, 1.0) on a Type 2 device with no button held, then TokenIn,
\* gives the button byte 1 << position(X) in that order (0x01 for B, 0x02
\* for A).
ButtonBitsWireOrder ==
    [][\A X \in ButtonBindings :
          (type = MT_TYPE2 /\ JustPressed(X) /\ call'[1] = "TokenIn") =>
              /\ data.buttons = 2 ^ WireBit(X)
              /\ buf'[6] = data.buttons
              /\ buf'[6] = 2 ^ WireBit(X)]_vars

\* A Type 2 report whose button byte is 0x02: A alone is held.
ButtonBitsWitness ==
    /\ Reported
    /\ type = MT_TYPE2
    /\ button_at(data.buttons, CID_MC_A) # 0
    /\ \A Y \in ButtonBindings \ {CID_MC_A} : button_at(data.buttons, Y) = 0
    /\ buf[6] = 2

\* C8: TokenIn on a Ryojouhen device returns the negative I/O error and no
\* byte count, and keeps power, brake, the hat flags and buttons; on Type 2
\* and Shinkansen it returns a byte count.
UnsupportedVariant ==
    [][call'[1] = "TokenIn" =>
          /\ type = MT_RYOJOUHEN =>
                /\ ret' = USB_RET_IOERROR
                /\ ret' < 0
                /\ data'.power = data.power
                /\ data'.brake = data.brake
                /\ FlagsAndButtonsKept
          /\ type \in {MT_TYPE2, MT_SHINKANSEN} => ret' > 0]_vars

\* A failed report on a Ryojouhen device with levers, hat and a button set.
UnsupportedVariantWitness ==
    /\ Reported
    /\ type = MT_RYOJOUHEN
    /\ ret = USB_RET_IOERROR
    /\ data.power = 255
    /\ data.hat_down
    /\ data.buttons # 0

\* round(n / ValueDen * 255) clamped to [0,255]: 0 below 0.0, 255 above 1.0,
\* else the integer k with k - 1/2 <= 255 n / ValueDen < k + 1/2.
RoundedByte(n) ==
    IF n < 0 THEN 0
    ELSE IF n > ValueDen THEN 255
    ELSE CHOOSE k \in Byte :
            /\ 2 * ValueDen * k <= 2 * 255 * n + ValueDen
            /\ 2 * 255 * n + ValueDen < 2 * ValueDen * (k + 1)

Abs(x) == IF x < 0 THEN 0 - x ELSE x

AxisByte(d, i) == IF i = CID_MC_POWER THEN d.power ELSE d.brake

OtherAxis(i) == IF i = CID_MC_POWER THEN CID_MC_BRAKE ELSE CID_MC_POWER

\* C9: after SetBindValue(i, v) on an axis i the stored byte is round(v*255)
\* clamped to [0,255] (0 for v < 0, 255 for v > 1), GetBindValue(i) is
\* byte/255 and is within 1/255 of v when v is in [0,1], and the other axis
\* is unchanged.
AxisRoundTrip ==
    [][\A i \in AxisBindings :
        (call'[1] = "SetBindValue" /\ call'[2] = i) =>
          LET n == call'[3]
              byte == AxisByte(data', i)
          IN /\ byte = RoundedByte(n)
             /\ n < 0 => byte = 0
             /\ n > ValueDen => byte = 255
             /\ GetBindValue(i)' = << byte, 255 >>
             /\ (0 <= n /\ n <= ValueDen) => Abs(byte * ValueDen - 255 * n) <= ValueDen
             /\ AxisByte(data', OtherAxis(i)) = AxisByte(data, OtherAxis(i))]_vars

\* Power set to a value strictly inside (0,1) while the brake is fully applied.
AxisRoundTripWitness ==
    /\ call[1] = "SetBindValue"
    /\ call[2] = CID_MC_POWER
    /\ 0 < call[3] /\ call[3] < ValueDen
    /\ data.power = RoundedByte(call[3])
    /\ data.power \notin {0, 255}
    /\ data.brake = 255

IsFreeze == call'[1] = "Freeze"

\* C10: a saved section is << power, brake >> and saving changes no field;
\* a load sets power and brake from the section saved last and keeps the
\* hat flags, hatswitch and buttons, so that the next report shows the saved
\* levers with the present hat and buttons; with the marker rejected Freeze
\* returns false and changes nothing.
SnapshotFrame ==
    [][/\ (IsFreeze /\ ~call'[3]) =>
             (ret' = FALSE /\ data' = data /\ sw' = sw)
       /\ (IsFreeze /\ call'[3] /\ ~call'[2]) =>
             (ret' = TRUE /\ data' = data /\ sw' = << data.power, data.brake >>)
       /\ (IsFreeze /\ call'[3] /\ call'[2]) =>
             /\ ret' = TRUE
             /\ Len(sw) = 2
             /\ sw' = sw
             /\ data'.power = sw[1]
             /\ data'.brake = sw[2]
             /\ FlagsAndButtonsKept
             /\ data'.hatswitch = data.hatswitch
       /\ ~IsFreeze => sw' = sw
       /\ (call = << "Freeze", TRUE, TRUE >> /\ call'[1] = "TokenIn" /\ type = MT_TYPE2) =>
             buf' = << 1, FirstMatch(dct01_brake_notches, sw[2]),
                       FirstMatch(dct01_power_notches, sw[1]), 255,
                       EncodedHat, data.buttons, 0, 0 >>
       /\ (call = << "Freeze", TRUE, TRUE >> /\ call'[1] = "TokenIn" /\ type = MT_SHINKANSEN) =>
             buf' = << FirstMatch(dct02_brake_notches, sw[2]),
                       FirstMatch(dct02_power_notches, sw[1]), 255,
                       EncodedHat, PackedButtons(data.buttons), 0, 0, 0 >>]_vars

\* A load of the section << 0xFF, 0x00 >> into a device holding up and A.
SnapshotFrameWitness ==
    /\ call = << "Freeze", TRUE, TRUE >>
    /\ sw = << 255, 0 >>
    /\ data.power = 255 /\ data.brake = 0
    /\ data.hat_up /\ data.hatswitch = 0
    /\ data.buttons = 2

(* ---------------------------------------------------------------------- *)
(* Hat calls split into single field reads and writes                      *)
(* ---------------------------------------------------------------------- *)

\* A chain that tests the single directions before the diagonals.
HatSwitchTests_cardinal_first ==
    << << << "hat_up" >>, 0 >>,
       << << "hat_right" >>, 2 >>,
       << << "hat_down" >>, 4 >>,
       << << "hat_left" >>, 6 >>,
       << << "hat_up", "hat_right" >>, 1 >>,
       << << "hat_right", "hat_down" >>, 3 >>,
       << << "hat_down", "hat_left" >>, 5 >>,
       << << "hat_left", "hat_up" >>, 7 >>,
       << << >>, 8 >> >>

\* The if / else-if chain of UpdateHatSwitch: the flags each condition reads,
\* left to right with && short-circuit, and the code it stores.
HatSwitchTests ==
    << << << "hat_up", "hat_right" >>, 1 >>,
       << << "hat_right", "hat_down" >>, 3 >>,
       << << "hat_down", "hat_left" >>, 5 >>,
       << << "hat_left", "hat_up" >>, 7 >>,
       << << "hat_up" >>, 0 >>,
       << << "hat_right" >>, 2 >>,
       << << "hat_down" >>, 4 >>,
       << << "hat_left" >>, 6 >>,
       << << >>, 8 >> >>

\* Where a context stands when it reaches condition k of the chain.
EnterTest(k) ==
    IF HatSwitchTests[k][1] = << >> THEN << "store", HatSwitchTests[k][2] >>
    ELSE << "test", k, 1 >>

\* The flag a hat binding writes.
HatFlag(bind_index) ==
    CASE bind_index = CID_MC_UP -> "hat_up"
      [] bind_index = CID_MC_DOWN -> "hat_down"
      [] bind_index = CID_MC_LEFT -> "hat_left"
      [] bind_index = CID_MC_RIGHT -> "hat_right"

Contexts == {"input", "usb"}

Other(p) == IF p = "input" THEN "usb" ELSE "input"

\* With serialized callers a call starts only while no other call is running.
MayEnter(p) ==
    /\ threads[p] = << "idle" >>
    /\ threads.serialized => threads[Other(p)] = << "idle" >>

\* SetBindValue on a hat index, up to the call of UpdateHatSwitch: the write
\* of the flag.
SetBindValue_flag(bind_index, n) ==
    /\ MayEnter("input")
    /\ data' = [data EXCEPT ![HatFlag(bind_index)] = (ValueToByte(n) # 0)]
    /\ threads' = [threads EXCEPT
                     !.input = EnterTest(1),
                     !.seen = @ \cup {E(data'.hat_up, data'.hat_down,
                                        data'.hat_left, data'.hat_right)}]
    /\ call' = << "SetBindValue" >>
    /\ UNCHANGED << type, sw, ret, buf, fin, fout >>

\* TokenIn up to the call of UpdateHatSwitch, on the buffer b.
TokenIn_enter(b) ==
    /\ MayEnter("usb")
    /\ threads' = [threads EXCEPT !.usb = EnterTest(1), !.reported = FALSE]
    /\ buf' = b
    /\ ret' = None
    /\ call' = << "TokenIn" >>
    /\ UNCHANGED << type, data, sw, fin, fout >>

\* UpdateHatSwitch in context p: the read of one flag of one condition.
UpdateHatSwitch_read(p) ==
    /\ threads[p][1] = "test"
    /\ LET k == threads[p][2]
           j == threads[p][3]
           flags == HatSwitchTests[k][1]
       IN threads' = [threads EXCEPT ![p] =
               IF data[flags[j]]
               THEN IF j = Len(flags) THEN << "store", HatSwitchTests[k][2] >>
                    ELSE << "test", k, j + 1 >>
               ELSE EnterTest(k + 1)]
    /\ UNCHANGED << type, data, sw, call, ret, buf, fin, fout >>

\* UpdateHatSwitch in context p: the assignment to hatswitch; SetBindValue
\* returns after it, TokenIn goes on to fill the buffer.
UpdateHatSwitch_store(p) ==
    /\ threads[p][1] = "store"
    /\ data' = [data EXCEPT !.hatswitch = threads[p][2]]
    /\ threads' = [threads EXCEPT
                     ![p] = IF p = "usb" THEN << "fill" >> ELSE << "idle" >>,
                     !.stored = TRUE]
    /\ UNCHANGED << type, sw, call, ret, buf, fin, fout >>

\* TokenIn after UpdateHatSwitch: the switch (type), which reads hatswitch.
TokenIn_fill ==
    /\ threads.usb = << "fill" >>
    /\ buf' = Report(type, data, buf).buf
    /\ ret' = Report(type, data, buf).ret
    /\ threads' = [threads EXCEPT !.usb = << "idle" >>, !.reported = TRUE]
    /\ UNCHANGED << type, data, sw, call, fin, fout >>

\* The hat bindings the input context drives.
RaceBindings == {CID_MC_UP, CID_MC_RIGHT}

\* A device whose callers either serialize their calls or do not.
InitRace ==
    /\ type \in MasconTypes
    /\ data = ResetData(ZeroData)
    /\ sw = None
    /\ call = << "MasconState" >>
    /\ ret = None
    /\ buf = None
    /\ fin = None
    /\ fout = None
    /\ threads \in {[serialized |-> s, input |-> << "idle" >>, usb |-> << "idle" >>,
                      seen |-> {E(FALSE, FALSE, FALSE, FALSE)}, stored |-> FALSE,
                      reported |-> FALSE] :
                     s \in BOOLEAN}

NextRace ==
    \/ \E i \in RaceBindings, n \in SwitchValues : SetBindValue_flag(i, n)
    \/ TokenIn_enter(ZeroBuf)
    \/ \E p \in Contexts : UpdateHatSwitch_read(p)
    \/ \E p \in Contexts : UpdateHatSwitch_store(p)
    \/ TokenIn_fill

SpecRace == InitRace /\ [][NextRace]_vars

Quiescent == threads.input = << "idle" >> /\ threads.usb = << "idle" >>

\* The last report carries a hat code that encodes no flag combination the
\* device has been in.
PhantomHat == threads.reported /\ ret = 6 /\ buf[HatByte] \notin threads.seen

\* No call is running, one has stored hatswitch, and hatswitch is not the
\* encoding of the flags.
StaleHat == Quiescent /\ threads.stored /\ data.hatswitch # EncodedHat

\* C11: when every call runs alone, no report carries a hat code that encodes
\* none of the flag combinations passed through, and no call leaves hatswitch
\* different from the encoding of the flags; both can happen when hat
\* SetBindValue and TokenIn interleave at single field reads and writes.
SerializedCallsKeepHat ==
    threads.serialized => (~PhantomHat /\ ~StaleHat)

\* Unserialized callers: the report carries a code never encoded and
\* hatswitch is left stale.
InterleavedCallsBreakHat ==
    /\ ~threads.serialized
    /\ PhantomHat
    /\ StaleHat

====
